---- MODULE Spec2Model ----
(***************************************************************************)
(* Extended Euclidean algorithm, src/math/extended_euclid_algorithm.cpp.   *)
(* main() reads a and b, runs the recursive variant extendedEuclid and     *)
(* prints its triple, then runs the iterative variant extendedEuclid_1 and *)
(* prints its triple.  Unsigned arithmetic is modelled modulo 2^Width and  *)
(* the signed out-parameters by their two's complement reading.            *)
(***************************************************************************)
EXTENDS Integers, Sequences, FiniteSets, TLC

\* Width of the unsigned type of the model (uint64_t in the source).
Width == 4

Modulus == 2 ^ Width

UMax == Modulus - 1

\* Conversion of an integer value to the unsigned type.
ToUnsigned(v) == v % Modulus

\* Conversion of an integer value to the signed type of the same width.
ToSigned(v) ==
    LET u == v % Modulus
    IN  IF u >= Modulus \div 2 THEN u - Modulus ELSE u

\* Values an uninitialized local of main may hold before it is written.
Indeterminate == {0, 1}

VARIABLES
    a, b,             \* main: the two operands read from the input
    gcd, x, y,        \* main: the out-parameters of both variants
    out,              \* the triples printed so far
    pc,               \* position of the program
    argA, argB,       \* extendedEuclid: parameters of the call being entered
    stack,            \* extendedEuclid: frames (A, B) waiting for their callee
    recursed,         \* extendedEuclid: some call has called itself
    A_1, B_1,         \* extendedEuclid_1: parameters after the swap
    s, s0, t, t0, r, r0, \* extendedEuclid_1: the three coefficient pairs
    looped,           \* extendedEuclid_1: the loop body has run
    fault             \* a division by zero has been executed

vars == <<a, b, gcd, x, y, out, pc, argA, argB, stack, recursed,
          A_1, B_1, s, s0, t, t0, r, r0, looped, fault>>

mainVars == <<a, b>>
recVars == <<argA, argB, stack, recursed>>
iterVars == <<A_1, B_1, s, s0, t, t0, r, r0, looped>>

----------------------------------------------------------------------------
\* Helpers shared by the step machine and by the functional reading.

\* if (B > A) std::swap(A, B);
\* Faulty variants: the swap left out; the swap written without a temporary.
swap_if_greater_noswap(A, B) == <<A, B>>

swap_if_greater_notemp(A, B) == IF B > A THEN <<B, B>> ELSE <<A, B>>

swap_if_greater(A, B) == IF B > A THEN <<B, A>> ELSE <<A, B>>

\* update_step(&v, &v0, quotient): returns the new <<v, v0>>.
\* Faulty variants: parameters taken by value (nothing is written back);
\* the product added instead of subtracted.
update_step_byvalue(v, v0, quotient) == <<v, v0>>

update_step_plus(v, v0, quotient) == <<ToUnsigned(v0 + quotient * v), v>>

update_step(v, v0, quotient) == <<ToUnsigned(v0 - quotient * v), v>>

\* while (r != 0)
loop_condition(rr, rr0) == rr # 0

\* Locals of extendedEuclid_1 after the declarations.
\* Faulty variant: the initial values of (s, s0) and (t, t0) mixed up.
iter_init_mixed(A, B) ==
    [s |-> 1, s0 |-> 0, t |-> 0, t0 |-> 1, r |-> B, r0 |-> A]

iter_init(A, B) ==
    [s |-> 0, s0 |-> 1, t |-> 1, t0 |-> 0, r |-> B, r0 |-> A]

\* One execution of the loop body on the locals.
loop_body(st) ==
    LET quotient == st.r0 \div st.r
        nr == update_step(st.r, st.r0, quotient)
        ns == update_step(st.s, st.s0, quotient)
        nt == update_step(st.t, st.t0, quotient)
    IN  [s |-> ns[1], s0 |-> ns[2], t |-> nt[1], t0 |-> nt[2],
         r |-> nr[1], r0 |-> nr[2]]

\* *GCD = r0; *x = s0; *y = t0;
\* Faulty variant: *GCD = r.
iter_result_r(st) == <<st.r, ToSigned(st.s0), ToSigned(st.t0)>>

iter_result(st) == <<st.r0, ToSigned(st.s0), ToSigned(st.t0)>>

\* if (B == 0)
base_case(B) == B = 0

\* *GCD = A; *x = 1; *y = 0;
\* Faulty variant: *x = 0; *y = 1.
base_result_exchanged(A) == <<A, 0, 1>>

base_result(A) == <<A, 1, 0>>

\* temp = *x; *x = *y; *y = temp - (A / B) * (*y);  returns the new <<x, y>>.
\* Faulty variant: the quotient A / B left out.
back_substitute_noquot(A, B, xx, yy) ==
    <<yy, ToSigned(ToUnsigned(xx) - ToUnsigned(yy))>>

back_substitute(A, B, xx, yy) ==
    <<yy, ToSigned(ToUnsigned(xx) - (A \div B) * ToUnsigned(yy))>>

\* Arguments of the recursive call extendedEuclid(B, A % B, ...).
recursive_args(A, B) == <<B, A % B>>

----------------------------------------------------------------------------
\* Functional reading of the two variants: the triple <<GCD, x, y>> written.

RECURSIVE iter_loop(_)
iter_loop(st) ==
    IF loop_condition(st.r, st.r0) THEN iter_loop(loop_body(st)) ELSE st

extendedEuclid_1(A, B) ==
    LET w == swap_if_greater(A, B)
    IN  iter_result(iter_loop(iter_init(w[1], w[2])))

RECURSIVE extendedEuclid(_, _)
extendedEuclid(A, B) ==
    LET w == swap_if_greater(A, B)
    IN  IF base_case(w[2])
        THEN base_result(w[1])
        ELSE LET n == recursive_args(w[1], w[2])
                 sub == extendedEuclid(n[1], n[2])
                 xy == back_substitute(w[1], w[2], sub[2], sub[3])
             IN  <<sub[1], xy[1], xy[2]>>

----------------------------------------------------------------------------
\* The program as a state machine.

Init ==
    /\ a \in 0..UMax
    /\ b \in 0..UMax
    /\ gcd \in Indeterminate
    /\ x \in Indeterminate
    /\ y \in Indeterminate
    /\ out = <<>>
    /\ pc = "main_call_recursive"
    /\ argA = 0 /\ argB = 0
    /\ stack = <<>>
    /\ recursed = FALSE
    /\ A_1 = 0 /\ B_1 = 0
    /\ s = 0 /\ s0 = 0 /\ t = 0 /\ t0 = 0 /\ r = 0 /\ r0 = 0
    /\ looped = FALSE
    /\ fault = FALSE

\* main: math::extendedEuclid(a, b, &gcd, &x, &y);
main_call_extendedEuclid ==
    /\ pc = "main_call_recursive"
    /\ argA' = a
    /\ argB' = b
    /\ pc' = "rec_entry"
    /\ UNCHANGED <<mainVars, gcd, x, y, out, stack, recursed, iterVars, fault>>

\* extendedEuclid, base case: swap, B == 0, write the triple and return.
extendedEuclid_base ==
    /\ pc = "rec_entry"
    /\ LET w == swap_if_greater(argA, argB)
       IN  /\ base_case(w[2])
           /\ gcd' = base_result(w[1])[1]
           /\ x' = base_result(w[1])[2]
           /\ y' = base_result(w[1])[3]
    /\ pc' = "rec_return"
    /\ argA' = 0
    /\ argB' = 0
    /\ UNCHANGED <<mainVars, out, stack, recursed, iterVars, fault>>

\* extendedEuclid, else branch up to the recursive call: swap, then call
\* extendedEuclid(B, A % B, ...); the frame keeps A and B for the return.
extendedEuclid_recurse ==
    /\ pc = "rec_entry"
    /\ LET w == swap_if_greater(argA, argB)
       IN  /\ ~base_case(w[2])
           /\ IF w[2] = 0
              THEN /\ fault' = TRUE
                   /\ pc' = "fault"
                   /\ UNCHANGED <<argA, argB, stack, recursed>>
              ELSE /\ stack' = Append(stack, [A |-> w[1], B |-> w[2]])
                   /\ argA' = recursive_args(w[1], w[2])[1]
                   /\ argB' = recursive_args(w[1], w[2])[2]
                   /\ recursed' = TRUE
                   /\ pc' = "rec_entry"
                   /\ UNCHANGED fault
    /\ UNCHANGED <<mainVars, gcd, x, y, out, iterVars>>

\* extendedEuclid, after the recursive call returned: back substitution in
\* the caller's frame, then return.
extendedEuclid_unwind ==
    /\ pc = "rec_return"
    /\ stack # <<>>
    /\ LET f == stack[Len(stack)]
           xy == back_substitute(f.A, f.B, x, y)
       IN  /\ x' = xy[1]
           /\ y' = xy[2]
    /\ stack' = SubSeq(stack, 1, Len(stack) - 1)
    /\ UNCHANGED <<mainVars, gcd, out, pc, argA, argB, recursed, iterVars, fault>>

\* main: the outermost call returned; print gcd, x, y.
main_print_extendedEuclid ==
    /\ pc = "rec_return"
    /\ stack = <<>>
    /\ out' = Append(out, <<gcd, x, y>>)
    /\ pc' = "main_call_iterative"
    /\ UNCHANGED <<mainVars, gcd, x, y, recVars, iterVars, fault>>

\* main: math::extendedEuclid_1(a, b, &gcd, &x, &y); the swap and the
\* declarations of the locals.
main_call_extendedEuclid_1 ==
    /\ pc = "main_call_iterative"
    /\ LET w == swap_if_greater(a, b)
           st == iter_init(w[1], w[2])
       IN  /\ A_1' = w[1]
           /\ B_1' = w[2]
           /\ s' = st.s /\ s0' = st.s0
           /\ t' = st.t /\ t0' = st.t0
           /\ r' = st.r /\ r0' = st.r0
    /\ pc' = "loop"
    /\ UNCHANGED <<mainVars, gcd, x, y, out, recVars, looped, fault>>

\* extendedEuclid_1: the loop condition holds; one execution of the body.
extendedEuclid_1_iteration ==
    /\ pc = "loop"
    /\ loop_condition(r, r0)
    /\ IF r = 0
       THEN /\ fault' = TRUE
            /\ pc' = "fault"
            /\ UNCHANGED <<s, s0, t, t0, r, r0, looped>>
       ELSE LET st == loop_body([s |-> s, s0 |-> s0, t |-> t, t0 |-> t0,
                                 r |-> r, r0 |-> r0])
            IN  /\ s' = st.s /\ s0' = st.s0
                /\ t' = st.t /\ t0' = st.t0
                /\ r' = st.r /\ r0' = st.r0
                /\ looped' = TRUE
                /\ UNCHANGED <<pc, fault>>
    /\ UNCHANGED <<mainVars, gcd, x, y, out, recVars, A_1, B_1>>

\* extendedEuclid_1: the loop condition fails; write the triple and return.
extendedEuclid_1_exit ==
    /\ pc = "loop"
    /\ ~loop_condition(r, r0)
    /\ LET res == iter_result([s |-> s, s0 |-> s0, t |-> t, t0 |-> t0,
                               r |-> r, r0 |-> r0])
       IN  /\ gcd' = res[1]
           /\ x' = res[2]
           /\ y' = res[3]
    /\ pc' = "main_print_iterative"
    /\ UNCHANGED <<mainVars, out, recVars, iterVars, fault>>

\* main: print gcd, x, y of the iterative variant and return 0.
main_print_extendedEuclid_1 ==
    /\ pc = "main_print_iterative"
    /\ out' = Append(out, <<gcd, x, y>>)
    /\ pc' = "done"
    /\ UNCHANGED <<mainVars, gcd, x, y, recVars, iterVars, fault>>

Next ==
    \/ main_call_extendedEuclid
    \/ extendedEuclid_base
    \/ extendedEuclid_recurse
    \/ extendedEuclid_unwind
    \/ main_print_extendedEuclid
    \/ main_call_extendedEuclid_1
    \/ extendedEuclid_1_iteration
    \/ extendedEuclid_1_exit
    \/ main_print_extendedEuclid_1

Spec == Init /\ [][Next]_vars

\* The program is a single sequential thread: it always takes its next step.
FairSpec == Init /\ [][Next]_vars /\ WF_vars(Next)

TypeOK ==
    /\ a \in 0..UMax /\ b \in 0..UMax
    /\ gcd \in 0..UMax
    /\ x \in -(Modulus \div 2)..(Modulus \div 2 - 1)
    /\ y \in -(Modulus \div 2)..(Modulus \div 2 - 1)
    /\ \A v \in {s, s0, t, t0, r, r0, A_1, B_1, argA, argB} : v \in 0..UMax
    /\ Len(out) <= 2

----------------------------------------------------------------------------
\* Definitions used by the properties.

\* Reference Euclidean algorithm on naturals, gcd(0, 0) = 0.
RECURSIVE RefGcd(_, _)
RefGcd(m, n) == IF n = 0 THEN m ELSE RefGcd(n, m % n)

Abs(v) == IF v < 0 THEN -v ELSE v

Max(m, n) == IF m >= n THEN m ELSE n

Min(m, n) == IF m <= n THEN m ELSE n

\* Both triples have been printed.
Done == pc = "done" /\ Len(out) = 2

----------------------------------------------------------------------------
\* C1: both variants return (GCD, X, Y) with a*X + b*Y = GCD exactly, a and
\* b being the operands as supplied by the caller, in either operand order.
C1_BezoutOriginalOperands ==
    Done => \A i \in 1..2 : a * out[i][2] + b * out[i][3] = out[i][1]

\* C2: the GCD written by both variants equals the greatest common divisor
\* computed by the reference Euclidean algorithm, with gcd(0, 0) = 0.
C2_GcdIsReference ==
    Done => \A i \in 1..2 : out[i][1] = RefGcd(a, b)

C2_Witness ==
    /\ Done /\ recursed /\ looped
    /\ a = 6 /\ b = 15
    /\ out[1][1] = 3 /\ out[2][1] = 3

\* C3: the recursive and the iterative variant return the identical triple
\* (GCD, X, Y) for the same operands.
C3_IdenticalTriples ==
    Done => out[1] = out[2]

C3_Witness ==
    /\ Done /\ recursed /\ looped
    /\ a = 13 /\ b = 8
    /\ out[1] = out[2]
    /\ out[1][2] < 0 /\ out[1][3] > 1

\* C4: with first operand 0 and second operand b > 0 both variants return
\* exactly (b, 0, 1).
C4_ZeroFirstOperand ==
    (Done /\ a = 0 /\ b > 0) => \A i \in 1..2 : out[i] = <<b, 0, 1>>

\* C5: with second operand 0 both variants return exactly (a, 1, 0), the
\* iterative one without running its loop body, the recursive one without
\* recursing.
C5_ZeroSecondOperand ==
    (Done /\ b = 0) =>
        /\ \A i \in 1..2 : out[i] = <<a, 1, 0>>
        /\ ~looped
        /\ ~recursed

C5_Witness ==
    /\ Done /\ b = 0 /\ a = 9
    /\ out = << <<9, 1, 0>>, <<9, 1, 0>> >>
    /\ ~looped /\ ~recursed

\* C6: a call with (a, b) and a call with (b, a) yield the same GCD, for the
\* recursive and for the iterative variant.
C6_SymmetricGcd ==
    Done => /\ out[1][1] = extendedEuclid(b, a)[1]
            /\ out[2][1] = extendedEuclid_1(b, a)[1]

C6_Witness ==
    /\ Done /\ a = 6 /\ b = 15
    /\ out[1][1] = 3 /\ extendedEuclid(15, 6)[1] = 3
    /\ out[2][1] = 3 /\ extendedEuclid_1(15, 6)[1] = 3

\* C7: every run finishes: the recursion reaches its base case, the loop
\* reaches r = 0, both triples are written, and no division by zero is
\* executed on the way.
C7_Total ==
    <>(Done /\ ~fault /\ stack = <<>> /\ r = 0)

C7_Witness ==
    /\ Done /\ ~fault /\ stack = <<>> /\ r = 0
    /\ recursed /\ looped
    /\ a = 8 /\ b = 13

\* C8: loop invariant of extendedEuclid_1.  At every evaluation of the loop
\* condition the working copies are the operands in descending order,
\* r0 = A*s0 + B*t0 and r = A*s + B*t modulo 2^Width, gcd(r0, r) = gcd(a, b),
\* and from the second evaluation on r < r0; each iteration applies
\* (v, v0) <- (v0 - quotient*v, v) to the three pairs with quotient = r0 div r.
C8_AtLoopCondition ==
    pc = "loop" =>
        /\ A_1 = Max(a, b) /\ B_1 = Min(a, b)
        /\ r0 = ToUnsigned(A_1 * s0 + B_1 * t0)
        /\ r = ToUnsigned(A_1 * s + B_1 * t)
        /\ RefGcd(r0, r) = RefGcd(a, b)
        /\ (looped => r < r0)

C8_Iteration ==
    (pc = "loop" /\ pc' = "loop") =>
        LET quotient == r0 \div r
        IN  /\ r # 0
            /\ r' = ToUnsigned(r0 - quotient * r) /\ r0' = r
            /\ s' = ToUnsigned(s0 - quotient * s) /\ s0' = s
            /\ t' = ToUnsigned(t0 - quotient * t) /\ t0' = t

C8_LoopInvariant ==
    []C8_AtLoopCondition /\ [][C8_Iteration]_vars

C8_Witness ==
    /\ pc = "loop" /\ looped
    /\ a = 8 /\ b = 13
    /\ r0 = 3 /\ r = 2
    /\ s0 = Modulus - 1 /\ s = 2

\* C9: the coefficients belong to the swapped working copies: modulo
\* 2^Width, GCD = max(a, b)*X + min(a, b)*Y; a call with (a, b) returns the
\* same triple as a call with (b, a); and in the recursive variant the swap
\* fires in the outermost call only, every inner call receiving B < A.
C9_SwappedCoefficients ==
    /\ Done =>
         /\ \A i \in 1..2 :
              out[i][1] = ToUnsigned(Max(a, b) * out[i][2] + Min(a, b) * out[i][3])
         /\ out[1] = extendedEuclid(b, a)
         /\ out[2] = extendedEuclid_1(b, a)
    /\ (pc = "rec_entry" /\ stack # <<>>) => argB < argA

C9_Witness ==
    /\ Done /\ a = 6 /\ b = 15
    /\ out[1] = <<3, 1, -2>> /\ out[2] = <<3, 1, -2>>
    /\ extendedEuclid(15, 6) = <<3, 1, -2>>
    /\ extendedEuclid_1(15, 6) = <<3, 1, -2>>

\* C10: the coefficients written by either variant, read as signed values,
\* satisfy |X| <= max(1, min(a, b)) and |Y| <= max(a, b), over the full
\* unsigned range of the operands.
C10_CoefficientsBounded ==
    Done => \A i \in 1..2 :
        /\ Abs(out[i][2]) <= Max(1, Min(a, b))
        /\ Abs(out[i][3]) <= Max(a, b)

C10_Witness ==
    /\ Done /\ a = UMax /\ b = UMax - 2
    /\ out[1][2] < 0 /\ out[2][2] < 0
    /\ out[1][3] > 0 /\ out[2][3] > 0

====
